---- MODULE Spec2Model ----
(***************************************************************************)
(* Ticket store of the helpdesk backend (src/app.py): the JSON store file, *)
(* load_tickets_db / save_tickets_db, and the handlers login,              *)
(* get_all_tickets, create_ticket and update_ticket_route, run by one      *)
(* asyncio event loop.                                                     *)
(***************************************************************************)
EXTENDS Integers, Sequences, FiniteSets, TLC

\* ------------------------------------------------------------ bounds
\* The millisecond clock reads 0..MaxClock.
MaxClock == 1
\* create_ticket is only started while the store holds fewer records.
MaxTickets == 2

\* ------------------------------------------------------------ values
\* Python's None (Optional[str] email, dict.get of a missing key).
None == "<None>"

\* f"TICKET-{int(datetime.now().timestamp() * 1000)}"
TicketId(ms) == <<"TICKET-", ms>>

\* datetime.now().isoformat()
IsoFormat(ms) == <<"ISO", ms>>

\* An identifier that is not of the TICKET-<ms> form.
OtherId == <<"CHAMADO-", 7>>

\* The defaults create_ticket assigns.
StatusEmAberto == "Em aberto"
UrgenciaMedia == "Média"

\* Python truthiness of an Optional[str].
Truthy(s) == s # None /\ s # ""

\* The twelve fields of class Ticket.
TicketFields ==
    {"id", "dataAbertura", "nome", "setor", "email", "tipoProblema",
     "descricao", "status", "responsaveis", "urgencia", "dataInicial",
     "dataFinal"}

\* Fields of Ticket without a default: every one but email.
RequiredFields == TicketFields \ {"email"}

\* A Ticket instance.
MkTicket(id, opened, nome, setor, email, tipo, desc, st, resp, urg, di, df) ==
    [id |-> id, dataAbertura |-> opened, nome |-> nome, setor |-> setor,
     email |-> email, tipoProblema |-> tipo, descricao |-> desc,
     status |-> st, responsaveis |-> resp, urgencia |-> urg,
     dataInicial |-> di, dataFinal |-> df]

\* A TicketIn instance (the form's payload).
MkTicketIn(nome, setor, email, tipo, desc) ==
    [nome |-> nome, setor |-> setor, email |-> email, tipoProblema |-> tipo,
     descricao |-> desc]

\* ------------------------------------------------------------ store file
\* One element of the parsed JSON document: an object (its twelve known
\* members in f, the names of the members it lacks, of the members whose
\* value has the wrong type, and of its members Ticket does not declare),
\* or a value of another JSON type.
RawObject(t, missing, illtyped, extra) ==
    [shape |-> "object", f |-> t, missing |-> missing, illtyped |-> illtyped,
     extra |-> extra]

BlankTicket == MkTicket(OtherId, IsoFormat(0), "", "", None, "", "", "", <<>>, "", "", "")

RawScalar(shape) ==
    [shape |-> shape, f |-> BlankTicket, missing |-> {}, illtyped |-> {},
     extra |-> {}]

\* The store file: absent, text json.load rejects, or a JSON document with
\* its top-level type, what iterating it yields, and its layout.
MissingFile == [kind |-> "missing", top |-> "none", elems |-> <<>>, fmt |-> "none"]
TextFile == [kind |-> "text", top |-> "none", elems |-> <<>>, fmt |-> "hand"]
JsonFile(top, elems, fmt) == [kind |-> "json", top |-> top, elems |-> elems, fmt |-> fmt]

\* Ticket.model_dump(): the twelve fields, nothing else.
ModelDump(t) == RawObject(t, {}, {}, {})

\* Ticket(**ticket): raises unless the argument is a mapping with every
\* required field present and every present field well typed.
Validates(raw) ==
    /\ raw.shape = "object"
    /\ raw.missing \cap RequiredFields = {}
    /\ raw.illtyped = {}

\* The instance Ticket(**ticket) builds: members Ticket does not declare are
\* ignored, a missing email takes its default.
TicketOf(raw) ==
    [raw.f EXCEPT !.email = IF "email" \in raw.missing THEN None ELSE @]

\* ticket_data.pop("observacoesTI", None): raises on anything but a dict.
CanPop(raw) == raw.shape = "object"
PopObsolete(raw) == [raw EXCEPT !.extra = @ \ {"observacoesTI"}]

\* Whether `for ticket in data` can iterate the document.
Iterable(file) == file.top \in {"array", "object", "string"}

\* [Ticket(**ticket) for ticket in data]
TicketsOf(elems) == [i \in 1..Len(elems) |-> TicketOf(elems[i])]

\* The elements after ticket_data.pop("observacoesTI", None) on each.
PoppedAll(elems) == [i \in 1..Len(elems) |-> PopObsolete(elems[i])]

\* [ticket.model_dump() for ticket in tickets]
DumpAll(tickets) == [i \in 1..Len(tickets) |-> ModelDump(tickets[i])]

\* save_tickets_db: the whole list, every record dumped, indent=4.
SaveTicketsDb(tickets) == JsonFile("array", DumpAll(tickets), "indent4")

\* load_tickets_db: [raised, tickets, file], file being the store file when
\* the call returns or raises.
Returned(tickets, file) == [raised |-> FALSE, tickets |-> tickets, file |-> file]
Raised(file) == [raised |-> TRUE, tickets |-> <<>>, file |-> file]

\* load_tickets_db rewriting the file after every successful parse.
LoadTicketsDbAlwaysSaves(file) ==
    IF file.kind = "missing" THEN Returned(<<>>, file)
    ELSE IF file.kind = "text" THEN Returned(<<>>, file)
    ELSE IF ~Iterable(file) THEN Raised(file)
    ELSE IF \E i \in 1..Len(file.elems) : ~CanPop(file.elems[i]) THEN Raised(file)
    ELSE LET popped == PoppedAll(file.elems)
             tickets_validos == TicketsOf(SelectSeq(popped, Validates))
         IN Returned(tickets_validos, SaveTicketsDb(tickets_validos))

\* load_tickets_db without the per-record recovery: any failure is "no data".
LoadTicketsDbNoRecovery(file) ==
    IF file.kind = "missing" THEN Returned(<<>>, file)
    ELSE IF file.kind = "text" THEN Returned(<<>>, file)
    ELSE IF Iterable(file) /\ \A i \in 1..Len(file.elems) : Validates(file.elems[i])
         THEN Returned(TicketsOf(file.elems), file)
    ELSE Returned(<<>>, file)

LoadTicketsDb(file) ==
    IF file.kind = "missing" THEN Returned(<<>>, file)
    ELSE IF file.kind = "text" THEN Returned(<<>>, file)
    ELSE IF Iterable(file) /\ \A i \in 1..Len(file.elems) : Validates(file.elems[i])
         THEN Returned(TicketsOf(file.elems), file)
    ELSE IF ~Iterable(file) THEN Raised(file)
    ELSE IF \E i \in 1..Len(file.elems) : ~CanPop(file.elems[i]) THEN Raised(file)
    ELSE LET popped == PoppedAll(file.elems)
             tickets_validos == TicketsOf(SelectSeq(popped, Validates))
         IN Returned(tickets_validos, SaveTicketsDb(tickets_validos))

\* ------------------------------------------------------------ configuration
\* config.json as load_config returns it: the credentials entry (present or
\* not) and it_team_emails.
Credentials(present, username, password) ==
    [present |-> present, username |-> username, password |-> password]

\* dict.get(key) on config.get("credentials", {}).
CredGet(creds, key) == IF creds.present THEN creds[key] ELSE None

DefaultCredentials == Credentials(TRUE, "admin", "hospital123")
NoCredentials == Credentials(FALSE, "", "")

Configs ==
    { [credentials |-> DefaultCredentials, it_team_emails |-> <<"ti@hsc.org">>],
      [credentials |-> NoCredentials, it_team_emails |-> <<>>] }

\* ------------------------------------------------------------ inputs
Payloads ==
    { MkTicketIn("Ana", "UTI", "ana@hsc.org", "Impressora", "Sem toner"),
      MkTicketIn("Rui", "RH", None, "Rede", "Sem acesso") }

Logins ==
    { <<"admin", "hospital123">>, <<"Admin", "hospital123">>,
      <<"admin", "HOSPITAL123">> }

\* Bodies of PUT /api/tickets/{ticket_id}: full Ticket records.
Body(status, email) ==
    MkTicket(TicketId(0), IsoFormat(0), "Ana", "UTI", email, "Impressora",
             "Toner trocado", status, <<"Zanardi">>, "Alta", "2024-01-02", "")

Bodies ==
    { Body("Em aberto", "ana@hsc.org"), Body("Em andamento", "ana@hsc.org"),
      Body("Em andamento", ""), Body("Em aberto", None) }

\* Path identifiers of PUT /api/tickets/{ticket_id}.
PathIds == {TicketId(0), TicketId(1)}

\* Records as an earlier version of the program stored them.
OldTicket ==
    MkTicket(TicketId(1), IsoFormat(1), "Ana", "UTI", "ana@hsc.org", "Impressora",
             "Sem toner", "Em andamento", <<"Zanardi">>, "Alta", "2024-01-02", "")
OldTicket2 ==
    MkTicket(TicketId(0), IsoFormat(0), "Rui", "RH", None, "Rede", "Sem acesso",
             StatusEmAberto, <<>>, UrgenciaMedia, "", "")

\* Contents tickets.json can have when the process starts.
InitFiles ==
    { MissingFile,
      TextFile,
      JsonFile("array", <<RawObject(OldTicket, {}, {}, {"observacoesTI"})>>, "hand"),
      JsonFile("array", <<RawObject(OldTicket2, {"email"}, {}, {})>>, "indent4"),
      JsonFile("array", <<RawObject(OldTicket2, {"urgencia"}, {}, {"observacoesTI"}),
                          RawObject(OldTicket, {}, {}, {"observacoesTI"})>>,
               "indent4"),
      JsonFile("array", <<RawObject(OldTicket2, {}, {"responsaveis"}, {})>>, "indent4"),
      JsonFile("array", <<RawObject(OldTicket, {}, {}, {}), RawScalar("number")>>, "hand"),
      JsonFile("number", <<>>, "hand"),
      JsonFile("object", <<RawScalar("string")>>, "hand"),
      JsonFile("object", <<>>, "hand") }

\* ------------------------------------------------------------ state
VARIABLES
    dbFile,    \* content of tickets.json
    now,       \* datetime.now(), in milliseconds
    config,    \* the module-level config, loaded once
    running,   \* the request whose handler holds the event loop, 0 if none
    slot,      \* per connection: position and locals of its handler
    last       \* the request that completed last, with its response

vars == <<dbFile, now, config, running, slot, last>>

Slots == {1, 2}

BlankIn == MkTicketIn("", "", None, "", "")

IdleSlot ==
    [pc |-> "idle", op |-> "none", path |-> OtherId,
     body |-> BlankTicket, payload |-> BlankIn, tickets |-> <<>>,
     file0 |-> MissingFile]

NoRequest ==
    [op |-> "none", code |-> 0, detail |-> "", path |-> OtherId,
     body |-> BlankTicket, payload |-> BlankIn, username |-> "", password |-> "",
     loaded |-> <<>>, index |-> 0, file0 |-> MissingFile, file1 |-> MissingFile,
     ret |-> BlankTicket,
     mails |-> {}, pair |-> FALSE, lost |-> FALSE]

Init ==
    /\ dbFile \in InitFiles
    /\ now = 0
    /\ config \in Configs
    /\ running = 0
    /\ slot = [r \in Slots |-> IdleSlot]
    /\ last = NoRequest

\* A handler that awaits between its load and its save.
HandlerAwaits == TRUE

\* Whether a handler gives up the event loop between load_tickets_db and
\* save_tickets_db: the handlers are async functions that await nothing.
HandlerYields == FALSE

\* The records of a store file, [] when it does not load.
Records(file) == LoadTicketsDb(file).tickets

Succeeded(request) ==
    \/ request.op = "create" /\ request.code = 201
    \/ request.op = "update" /\ request.code = 200

\* Two requests on different tickets.
DifferentTickets(a, b) ==
    \/ a.op = "create" /\ b.op = "create"
    \/ a.ret.id # b.ret.id

\* The response of request r is produced and it becomes the last one; pair
\* and lost tell how it stands to the request that completed just before it.
Complete(r, response) ==
    LET pair == /\ Succeeded(last) /\ Succeeded(response)
                /\ DifferentTickets(last, response)
    IN /\ last' = [response EXCEPT
                     !.file1 = dbFile', !.pair = pair,
                     !.lost = pair /\ ~\E i \in 1..Len(Records(dbFile')) :
                                         Records(dbFile')[i] = last.ret]
       /\ slot' = [slot EXCEPT ![r] = IdleSlot]
       /\ running' = 0

\* The clock advances.
Tick ==
    /\ now < MaxClock
    /\ now' = now + 1
    /\ UNCHANGED <<dbFile, config, running, slot, last>>

\* ------------------------------------------------------------ handlers
\* The two spellings the inputs fold to under case-insensitive comparison.
FoldCase(s) ==
    IF s = "Admin" THEN "admin" ELSE IF s = "HOSPITAL123" THEN "hospital123" ELSE s

\* login comparing without regard to case.
LoginResponseIgnoringCase(username, password) ==
    LET creds == config.credentials
        ok == /\ FoldCase(username) = CredGet(creds, "username")
              /\ FoldCase(password) = CredGet(creds, "password")
    IN [NoRequest EXCEPT !.op = "login", !.code = IF ok THEN 200 ELSE 401,
                         !.detail = IF ok THEN "Login bem-sucedido"
                                    ELSE "Usuário ou senha incorretos",
                         !.username = username, !.password = password,
                         !.file0 = dbFile]

\* POST /api/login
LoginResponse(username, password) ==
    LET creds == config.credentials
    IN IF username = CredGet(creds, "username") /\ password = CredGet(creds, "password")
       THEN [NoRequest EXCEPT !.op = "login", !.code = 200,
                              !.detail = "Login bem-sucedido",
                              !.username = username, !.password = password,
                              !.file0 = dbFile]
       ELSE [NoRequest EXCEPT !.op = "login", !.code = 401,
                              !.detail = "Usuário ou senha incorretos",
                              !.username = username, !.password = password,
                              !.file0 = dbFile]

Login(r, username, password) ==
    /\ slot[r].pc = "idle"
    /\ running = 0
    /\ UNCHANGED <<dbFile, now, config>>
    /\ Complete(r, LoginResponse(username, password))

\* The 500 response of a handler whose load_tickets_db raised.
ServerError(op, file0) ==
    [NoRequest EXCEPT !.op = op, !.code = 500, !.detail = "Internal Server Error",
                      !.file0 = file0]

\* GET /api/tickets
GetAllTickets(r) ==
    /\ slot[r].pc = "idle"
    /\ running = 0
    /\ LET res == LoadTicketsDb(dbFile)
       IN /\ dbFile' = res.file
          /\ Complete(r, IF res.raised THEN ServerError("list", dbFile)
                         ELSE [NoRequest EXCEPT !.op = "list", !.code = 200,
                                                !.loaded = res.tickets,
                                                !.file0 = dbFile])
    /\ UNCHANGED <<now, config>>

\* A handler's call of load_tickets_db, its first statement.
LoadStep(r, op, path, body, payload) ==
    LET res == LoadTicketsDb(dbFile)
    IN /\ dbFile' = res.file
       /\ IF res.raised
          THEN Complete(r, [ServerError(op, dbFile) EXCEPT !.path = path, !.body = body,
                                                           !.payload = payload])
          ELSE /\ slot' = [slot EXCEPT ![r] =
                             [@ EXCEPT !.pc = "loaded", !.op = op, !.path = path,
                                       !.body = body, !.payload = payload,
                                       !.tickets = res.tickets, !.file0 = dbFile]]
               /\ running' = IF HandlerYields THEN 0 ELSE r
               /\ UNCHANGED last

\* POST /api/tickets, up to load_tickets_db.
CreateLoad(r, payload) ==
    /\ slot[r].pc = "idle"
    /\ running = 0
    /\ Len(LoadTicketsDb(dbFile).tickets) < MaxTickets
    /\ LoadStep(r, "create", OtherId, BlankTicket, payload)
    /\ UNCHANGED <<now, config>>

\* The record create_ticket builds; both readings of the clock fall in the
\* same millisecond ms.
NewTicket(ticket_in, ms) ==
    MkTicket(TicketId(ms), IsoFormat(ms), ticket_in.nome, ticket_in.setor,
             ticket_in.email, ticket_in.tipoProblema, ticket_in.descricao,
             StatusEmAberto, <<>>, UrgenciaMedia, "", "")

\* The background tasks create_ticket adds.
CreateMails(new_ticket) ==
    (IF Truthy(new_ticket.email)
     THEN {[kind |-> "recebido", to |-> <<new_ticket.email>>, id |-> new_ticket.id]}
     ELSE {})
    \cup
    (IF config.it_team_emails # <<>>
     THEN {[kind |-> "novo", to |-> config.it_team_emails, id |-> new_ticket.id]}
     ELSE {})

\* POST /api/tickets, from new_ticket to the response.
CreateSave(r) ==
    /\ slot[r].pc = "loaded"
    /\ slot[r].op = "create"
    /\ running \in {0, r}
    /\ LET new_ticket == NewTicket(slot[r].payload, now)
           tickets == Append(slot[r].tickets, new_ticket)
       IN /\ dbFile' = SaveTicketsDb(tickets)
          /\ Complete(r, [NoRequest EXCEPT !.op = "create", !.code = 201,
                            !.payload = slot[r].payload,
                            !.loaded = slot[r].tickets,
                            !.file0 = slot[r].file0,
                            !.ret = new_ticket,
                            !.mails = CreateMails(new_ticket)])
    /\ UNCHANGED <<now, config>>

\* PUT /api/tickets/{ticket_id}, up to load_tickets_db.
UpdateLoad(r, ticket_id, ticket_update) ==
    /\ slot[r].pc = "idle"
    /\ running = 0
    /\ LoadStep(r, "update", ticket_id, ticket_update, BlankIn)
    /\ UNCHANGED <<now, config>>

\* The search loop without its break: the last index with the identifier.
IndexToUpdateLast(tickets, ticket_id) ==
    IF \E i \in 1..Len(tickets) : tickets[i].id = ticket_id
    THEN CHOOSE i \in 1..Len(tickets) :
           /\ tickets[i].id = ticket_id
           /\ \A j \in (i + 1)..Len(tickets) : tickets[j].id # ticket_id
    ELSE 0

\* The search loop of update_ticket_route: the first index (from 1) whose
\* record has the identifier, 0 if none (the code's -1).
IndexToUpdate(tickets, ticket_id) ==
    IF \E i \in 1..Len(tickets) : tickets[i].id = ticket_id
    THEN CHOOSE i \in 1..Len(tickets) :
           /\ tickets[i].id = ticket_id
           /\ \A j \in 1..(i - 1) : tickets[j].id # ticket_id
    ELSE 0

\* The status mail added whenever the record has an email.
SendsStatusMailAlways(old_status, new_status, email) == Truthy(email)

\* The condition under which update_ticket_route adds the status mail.
SendsStatusMail(old_status, new_status, email) ==
    new_status # old_status /\ Truthy(email)

\* The body stored with the identifier it came with.
WithBodyId(ticket_update, ticket_id) == ticket_update

\* ticket_update.id = ticket_id
WithPathId(ticket_update, ticket_id) == [ticket_update EXCEPT !.id = ticket_id]

\* PUT /api/tickets/{ticket_id}, from the search loop to the response.
UpdateSave(r) ==
    /\ slot[r].pc = "loaded"
    /\ slot[r].op = "update"
    /\ running \in {0, r}
    /\ LET tickets == slot[r].tickets
           ticket_id == slot[r].path
           index_to_update == IndexToUpdate(tickets, ticket_id)
           request == [NoRequest EXCEPT !.op = "update", !.path = ticket_id,
                                        !.body = slot[r].body, !.loaded = tickets,
                                        !.index = index_to_update,
                                        !.file0 = slot[r].file0]
       IN IF index_to_update = 0
          THEN /\ UNCHANGED dbFile
               /\ Complete(r, [request EXCEPT !.code = 404,
                                              !.detail = "Ticket não encontrado"])
          ELSE LET old_status == tickets[index_to_update].status
                   new_status == slot[r].body.status
                   ticket_update == WithPathId(slot[r].body, ticket_id)
                   updated == [tickets EXCEPT ![index_to_update] = ticket_update]
               IN /\ dbFile' = SaveTicketsDb(updated)
                  /\ Complete(r, [request EXCEPT !.code = 200,
                        !.ret = updated[index_to_update],
                        !.mails =
                          IF SendsStatusMail(old_status, new_status, ticket_update.email)
                          THEN {[kind |-> "status", to |-> <<ticket_update.email>>,
                                 id |-> ticket_id]}
                          ELSE {}])
    /\ UNCHANGED <<now, config>>

Next ==
    \/ Tick
    \/ \E r \in Slots, l \in Logins : Login(r, l[1], l[2])
    \/ \E r \in Slots : GetAllTickets(r)
    \/ \E r \in Slots, payload \in Payloads : CreateLoad(r, payload)
    \/ \E r \in Slots : CreateSave(r)
    \/ \E r \in Slots, id \in PathIds, body \in Bodies : UpdateLoad(r, id, body)
    \/ \E r \in Slots : UpdateSave(r)

Spec == Init /\ [][Next]_vars

\* The process starts with no tickets.json.
InitEmpty == Init /\ dbFile = MissingFile
SpecEmpty == InitEmpty /\ [][Next]_vars

\* The event loop runs whatever is ready.
FairSpec == Init /\ [][Next]_vars /\ WF_vars(Next)

\* ------------------------------------------------------------ properties
Ids(tickets) == {tickets[i].id : i \in 1..Len(tickets)}

IsCreate(request) == request.op = "create" /\ request.code = 201
IsUpdate(request) == request.op = "update" /\ request.code = 200
IsNotFound(request) == request.op = "update" /\ request.code = 404

\* The file is missing, is not JSON, or is a document every element of
\* which is a valid ticket: load_tickets_db reads it and writes nothing.
LoadsAsIs(file) ==
    \/ file.kind \in {"missing", "text"}
    \/ /\ Iterable(file)
       /\ \A i \in 1..Len(file.elems) :
            /\ file.elems[i].shape = "object"
            /\ file.elems[i].missing \subseteq {"email"}
            /\ file.elems[i].illtyped = {}

\* A record that lacks no required field and has no ill-typed one.
OtherwiseValid(raw) == raw.missing \subseteq {"email"} /\ raw.illtyped = {}

\* The file is an array of records, some with the member observacoesTI.
CarriesObsolete(file) ==
    /\ file.kind = "json" /\ file.top = "array"
    /\ \A i \in 1..Len(file.elems) : file.elems[i].shape = "object"
    /\ \E i \in 1..Len(file.elems) : "observacoesTI" \in file.elems[i].extra

\* C1: a created record has status "Em aberto", urgencia "Média", no
\* responsaveis, empty dataInicial and dataFinal, the payload's five fields,
\* is the record appended to the store, and has an identifier no record of
\* the store had before the request.
CreateContract ==
    IsCreate(last) =>
        /\ last.ret.status = "Em aberto"
        /\ last.ret.urgencia = "Média"
        /\ last.ret.responsaveis = <<>>
        /\ last.ret.dataInicial = ""
        /\ last.ret.dataFinal = ""
        /\ \A f \in {"nome", "setor", "email", "tipoProblema", "descricao"} :
             last.ret[f] = last.payload[f]
        /\ Records(last.file1) = Append(Records(last.file0), last.ret)
        /\ last.ret.id \notin Ids(Records(last.file0))

\* C2: no two records of the store have the same id.
UniqueIds ==
    \A i, j \in 1..Len(Records(dbFile)) :
        i # j => Records(dbFile)[i].id # Records(dbFile)[j].id

\* C3 as stated: an update that finds no record answers 404, schedules no
\* mail and leaves the store file exactly as it was before the request.
NotFoundLeavesFile ==
    IsNotFound(last) => last.mails = {} /\ last.file1 = last.file0

\* C3 amended: an update that finds no record schedules no mail and leaves
\* the file as it was when the file loads as is; otherwise the file then
\* holds exactly the records that were loaded, written by the load.
NotFoundLeavesLoadedStore ==
    IsNotFound(last) =>
        /\ last.mails = {}
        /\ last.path \notin Ids(last.loaded)
        /\ LoadsAsIs(last.file0) => last.file1 = last.file0
        /\ ~LoadsAsIs(last.file0) =>
             /\ last.file1.kind = "json" /\ last.file1.top = "array"
             /\ Len(last.file1.elems) = Len(last.loaded)
             /\ \A i \in 1..Len(last.loaded) :
                  /\ last.file1.elems[i].f = last.loaded[i]
                  /\ last.file1.elems[i].missing = {}
                  /\ last.file1.elems[i].extra = {}

NotFoundOnStoredFile ==
    /\ IsNotFound(last)
    /\ Len(Records(last.file0)) > 0
    /\ last.file0.fmt = "hand"
    /\ dbFile = last.file0

\* C4: a successful update returns and stores, at the position of the
\* matching record, a record with the path identifier and the body's other
\* fields; the identifier at that position is the one it had before.
UpdateKeepsIdentifier ==
    IsUpdate(last) =>
        /\ last.ret.id = last.path
        /\ \A f \in TicketFields \ {"id"} : last.ret[f] = last.body[f]
        /\ last.index \in 1..Len(Records(last.file0))
        /\ Records(last.file0)[last.index].id = last.path
        /\ Records(last.file1)[last.index] = last.ret

UpdateWithForeignId ==
    /\ IsUpdate(last)
    /\ last.body.id # last.path
    /\ Records(dbFile)[last.index].id = last.path

\* C5: no request fails because of the content of the store file.
NeverServerError == last.code # 500

\* C6: a store file of records, some with observacoesTI, loads without an
\* error; the loaded records are the file's otherwise valid records, in
\* order, fields unchanged and nothing but the twelve fields; and a file the
\* program has written carries the field nowhere.
ObsoleteFieldStripped ==
    /\ (last.op \in {"list", "create", "update"} /\ CarriesObsolete(last.file0)) =>
          LET kept == SelectSeq(last.file0.elems, OtherwiseValid)
          IN /\ last.code # 500
             /\ Len(last.loaded) = Len(kept)
             /\ \A i \in 1..Len(kept) :
                  /\ DOMAIN last.loaded[i] = TicketFields
                  /\ \A f \in TicketFields \ kept[i].missing :
                       last.loaded[i][f] = kept[i].f[f]
    /\ (last.op # "none" /\ last.file1 # last.file0) =>
          \A i \in 1..Len(last.file1.elems) :
              "observacoesTI" \notin last.file1.elems[i].extra

ObsoleteRecordKept ==
    /\ last.op = "list"
    /\ CarriesObsolete(last.file0)
    /\ Len(last.loaded) = 1
    /\ Len(last.file0.elems) = 2
    /\ last.loaded[1].email = "ana@hsc.org"

\* C7: an update schedules the status mail exactly when it succeeded, the
\* body's status differs from that of the first stored record with the
\* identifier, and the body's email is not empty; it schedules nothing else.
StatusMailIffChanged ==
    last.op = "update" =>
        LET before == Records(last.file0)
            mailed == \E m \in last.mails : m.kind = "status"
        IN /\ mailed <=>
                /\ last.code = 200
                /\ \E i \in 1..Len(before) :
                     /\ before[i].id = last.path
                     /\ \A j \in 1..(i - 1) : before[j].id # last.path
                     /\ before[i].status # last.body.status
                /\ last.body.email \notin {None, ""}
           /\ \A m \in last.mails :
                m = [kind |-> "status", to |-> <<last.body.email>>, id |-> last.path]

StatusKeptNoMail ==
    /\ IsUpdate(last)
    /\ last.body.email = "ana@hsc.org"
    /\ Records(last.file0)[last.index].status = last.body.status
    /\ last.mails = {}

LoginExactPair ==
    last.op = "login" =>
        /\ last.code = 200 <=>
             /\ config.credentials.present
             /\ last.username = config.credentials.username
             /\ last.password = config.credentials.password
        /\ last.code # 200 =>
             last.code = 401 /\ last.detail = "Usuário ou senha incorretos"
        /\ last.file1 = last.file0
        /\ last.mails = {}

LoginSucceeded ==
    last.op = "login" /\ last.code = 200 /\ last.username = "admin"

\* C10: from a store file that loads as is, a step appends one record (a
\* create), replaces the first record with the path identifier (an update),
\* or leaves the records alone; the number of records never decreases.
StoreOnlyGrows ==
    [][ LoadsAsIs(dbFile) =>
          LET old == Records(dbFile)
              new == Records(dbFile')
          IN /\ LoadsAsIs(dbFile')
             /\ Len(new) >= Len(old)
             /\ \/ new = old
                \/ /\ IsCreate(last')
                   /\ new = Append(old, last'.ret)
                \/ /\ IsUpdate(last')
                   /\ Len(new) = Len(old)
                   /\ \E i \in 1..Len(old) :
                        /\ old[i].id = last'.path
                        /\ \A j \in 1..(i - 1) : old[j].id # last'.path
                        /\ new[i] = last'.ret
                        /\ \A j \in 1..Len(old) : j # i => new[j] = old[j]
             /\ (last' # last /\ last'.op \in {"list", "login"}) => dbFile' = dbFile
      ]_vars

UpdatedInPlace ==
    /\ IsUpdate(last)
    /\ Len(Records(last.file0)) = 2
    /\ last.index = 1
    /\ Records(dbFile)[2] = Records(last.file0)[2]
    /\ Records(dbFile)[1] # Records(last.file0)[1]
====
